---- MODULE Spec2Model ----
(***************************************************************************)
(* A model of hunter's tab container, src/src/tabview.rs: the TabView      *)
(* struct (a vector of panes and the index of the active one), its         *)
(* lifecycle operations push_widget, pop_widget, close_tab_ and next_tab_, *)
(* the default key dispatch of the Tabbable trait and the Widget::on_key   *)
(* and Widget::refresh implementations of the container.                   *)
(*                                                                         *)
(* Every operation is an operator from a TabView value and the operation's *)
(* inputs to an outcome: the TabView it leaves, its result ("ok", "err"    *)
(* for an Err(..) return, "panic" for an abort), the value it returns and  *)
(* the calls it made on its collaborators, in order.  The actions apply    *)
(* these operators to the state and remember the state before the call.    *)
(***************************************************************************)
EXTENDS Integers, Sequences, FiniteSets, TLC

(***************************************************************************)
(* Bounds of the model.                                                    *)
(***************************************************************************)
\* The largest number of panes the container holds in the model.
MaxPanes == 3
\* next_tab_ on a container without panes increments `active` without limit;
\* the model stops calling it once `active` has reached this value.
MaxStray == 3
\* Width of usize in the model.  Arithmetic on `active` is modulo 2^UsizeBits;
\* the program's own usize is as wide as a pointer of its target.
UsizeBits == 16

UsizeModulus == 2 ^ UsizeBits
UsizeMax == UsizeModulus - 1

\* Pane values.  A pane is owned by at most one place, so a pane pushed is
\* one the container does not hold.
PaneIds == 1 .. (MaxPanes + 1)

\* The panes whose refresh() returns Err at one call of it: none, or one (a
\* call reaches one pane).  Each refresh call of an operation draws its own
\* set: a pane may return Ok to one call and Err to the next.
BadSets == {{}} \cup {{p} : p \in PaneIds}

\* Option<T> is a sequence of length 0 (None) or 1 (Some).
None == << >>
Some(x) == << x >>

(***************************************************************************)
(* termion::event::Key values: a kind and, for Ctrl/Char/Alt, a character. *)
(***************************************************************************)
Ctrl(c) == [kind |-> "Ctrl", ch |-> c]
Char(c) == [kind |-> "Char", ch |-> c]
Alt(c) == [kind |-> "Alt", ch |-> c]
Esc == [kind |-> "Esc", ch |-> ""]
NoKey == [kind |-> "NoKey", ch |-> ""]
KeyChars == {"t", "w", "\t", "x"}
Keys == {Ctrl(c) : c \in KeyChars} \cup {Char(c) : c \in KeyChars}
            \cup {Alt("t"), Esc}

Builds == {"debug", "release"}

(***************************************************************************)
(* Calls on collaborators, as recorded by an operation.                    *)
(***************************************************************************)
\* `at` is the value of `active` the callee finds, for the calls that are
\* handed the container itself (the on_next_tab hook), None for the others.
EventAt(name, by, pane, key, res, at) ==
    [name |-> name, by |-> by, pane |-> pane, key |-> key, res |-> res, at |-> at]

Event(name, by, pane, key, res) == EventAt(name, by, pane, key, res, << >>)

Outcome(w, a, res, ret, tr) ==
    [widgets |-> w, active |-> a, result |-> res, returned |-> ret, trace |-> tr]

TabViewOf(w, a) == [widgets |-> w, active |-> a]

\* TabView::new
new == TabViewOf(<< >>, 0)

(***************************************************************************)
(* usize arithmetic: checked in a debug build (overflow panics), wrapping  *)
(* in a release build.  Overflow(..) tells whether the exact result leaves *)
(* the range of usize.                                                     *)
(***************************************************************************)
Wrap(n) == n % UsizeModulus
Overflow(n) == n < 0 \/ n > UsizeMax

(***************************************************************************)
(* TabView::active_tab_mut_ : &mut self.widgets[self.active].  Indexing a  *)
(* Vec out of range panics: the result is None then, Some(pane) otherwise. *)
(* Vec indices are 0-based, sequence indices 1-based.                      *)
(***************************************************************************)
active_tab_mut_(tv) ==
    IF tv.active < Len(tv.widgets) THEN Some(tv.widgets[tv.active + 1]) ELSE None

\* Tabbable::active_tab_mut of the host: the active pane of the container.
active_tab_mut(tv) == active_tab_mut_(tv)

(***************************************************************************)
(* Widget::refresh for TabView: self.active_tab_mut().refresh().           *)
(* `by` names the caller, `bad` the panes whose refresh fails.  The call   *)
(* is recorded with the pane it reached: None when the index is out of     *)
(* range and the access panics.                                            *)
(***************************************************************************)
refresh(tv, by, bad) ==
    LET t == active_tab_mut(tv) IN
    IF t = None
      THEN Outcome(tv.widgets, tv.active, "panic", None,
                   << Event("refresh", by, None, NoKey, "panic") >>)
      ELSE LET r == IF t[1] \in bad THEN "err" ELSE "ok" IN
           Outcome(tv.widgets, tv.active, r, None,
                   << Event("refresh", by, t, NoKey, r) >>)

\* push_widget with the pane inserted in front of the others.
push_widget_Front(tv, widget, bad) ==
    LET pushed == TabViewOf(<< widget >> \o tv.widgets, tv.active)
        r == refresh(pushed, "push_widget", bad)
    IN  Outcome(pushed.widgets, pushed.active, r.result, None, r.trace)

(***************************************************************************)
(* TabView::push_widget: push, then refresh.                               *)
(***************************************************************************)
push_widget(tv, widget, bad) ==
    LET pushed == TabViewOf(Append(tv.widgets, widget), tv.active)
        r == refresh(pushed, "push_widget", bad)
    IN  Outcome(pushed.widgets, pushed.active, r.result, None, r.trace)

\* pop_widget taking the first pane, not the last.
pop_widget_Front(tv, bad) ==
    IF tv.widgets = << >>
      THEN Outcome(tv.widgets, tv.active, "err", None, << >>)
      ELSE LET widget == tv.widgets[1]
               popped == TabViewOf(Tail(tv.widgets), tv.active)
               r == refresh(popped, "pop_widget", bad)
           IN  Outcome(popped.widgets, popped.active, r.result,
                       IF r.result = "ok" THEN Some(widget) ELSE None, r.trace)

(***************************************************************************)
(* TabView::pop_widget: `self.widgets.pop()?` returns Err on an empty      *)
(* vector; then `self.refresh()?`; then Ok(widget).                        *)
(***************************************************************************)
pop_widget(tv, bad) ==
    IF tv.widgets = << >>
      THEN Outcome(tv.widgets, tv.active, "err", None, << >>)
      ELSE LET n == Len(tv.widgets)
               widget == tv.widgets[n]
               popped == TabViewOf(SubSeq(tv.widgets, 1, n - 1), tv.active)
               r == refresh(popped, "pop_widget", bad)
           IN  Outcome(popped.widgets, popped.active, r.result,
                       IF r.result = "ok" THEN Some(widget) ELSE None, r.trace)

(***************************************************************************)
(* TabView::close_tab_: `self.pop_widget()?; self.active -= 1; Ok(())`.    *)
(***************************************************************************)
close_tab_(tv, bad, build) ==
    LET p == pop_widget(tv, bad) IN
    IF p.result # "ok"
      THEN Outcome(p.widgets, p.active, p.result, None, p.trace)
      ELSE IF Overflow(p.active - 1) /\ build = "debug"
             THEN Outcome(p.widgets, p.active, "panic", None, p.trace)
             ELSE Outcome(p.widgets, Wrap(p.active - 1), "ok", None, p.trace)

(***************************************************************************)
(* Tabbable::on_next_tab, the hook: Ok(()) by default, and a host may      *)
(* override it; hookOk tells whether it succeeds.                          *)
(***************************************************************************)
on_next_tab(hookOk) == IF hookOk THEN "ok" ELSE "err"

\* ErrorLog::log as next_tab_ uses it: the result is consumed, an Err is
\* written to the log, nothing is returned.
log(res) ==
    IF res = "err" THEN << Event("log", "next_tab_", None, NoKey, "ok") >> ELSE << >>

\* next_tab_ comparing `active` itself, not active + 1, with the length.
next_tab_OffByOne(tv, hookOk, build) ==
    IF Overflow(tv.active + 1) /\ build = "debug"
      THEN Outcome(tv.widgets, tv.active, "panic", None, << >>)
      ELSE LET a == IF tv.active = Len(tv.widgets)
                      THEN 0
                      ELSE Wrap(tv.active + 1)
               h == on_next_tab(hookOk)
           IN  Outcome(tv.widgets, a, "ok", None,
                       << Event("on_next_tab", "next_tab_", None, NoKey, h) >>
                           \o log(h))

\* next_tab_ calling the hook first and returning its error with `?`.
next_tab_HookFirst(tv, hookOk, build) ==
    LET h == on_next_tab(hookOk)
        tr == << Event("on_next_tab", "next_tab_", None, NoKey, h) >>
    IN  IF h = "err"
          THEN Outcome(tv.widgets, tv.active, "err", None, tr)
          ELSE IF Overflow(tv.active + 1) /\ build = "debug"
                 THEN Outcome(tv.widgets, tv.active, "panic", None, tr)
                 ELSE Outcome(tv.widgets,
                              IF Wrap(tv.active + 1) = Len(tv.widgets)
                                THEN 0
                                ELSE Wrap(tv.active + 1),
                              "ok", None, tr)

\* next_tab_ calling the hook before it updates `active`.
next_tab_HookBeforeUpdate(tv, hookOk, build) ==
    IF Overflow(tv.active + 1) /\ build = "debug"
      THEN Outcome(tv.widgets, tv.active, "panic", None, << >>)
      ELSE LET h == on_next_tab(hookOk)
               a == IF Wrap(tv.active + 1) = Len(tv.widgets)
                      THEN 0
                      ELSE Wrap(tv.active + 1)
           IN  Outcome(tv.widgets, a, "ok", None,
                       << EventAt("on_next_tab", "next_tab_", None, NoKey, h,
                                  Some(tv.active)) >>
                           \o log(h))

\* next_tab_ wrapping whenever active + 1 reaches or passes the length.
next_tab_WrapAtOrPast(tv, hookOk, build) ==
    IF Overflow(tv.active + 1) /\ build = "debug"
      THEN Outcome(tv.widgets, tv.active, "panic", None, << >>)
      ELSE LET a == IF Wrap(tv.active + 1) >= Len(tv.widgets)
                      THEN 0
                      ELSE Wrap(tv.active + 1)
               h == on_next_tab(hookOk)
           IN  Outcome(tv.widgets, a, "ok", None,
                       << EventAt("on_next_tab", "next_tab_", None, NoKey, h, Some(a)) >>
                           \o log(h))

(***************************************************************************)
(* TabView::next_tab_.                                                     *)
(***************************************************************************)
next_tab_(tv, hookOk, build) ==
    IF Overflow(tv.active + 1) /\ build = "debug"
      THEN Outcome(tv.widgets, tv.active, "panic", None, << >>)
      ELSE LET a == IF Wrap(tv.active + 1) = Len(tv.widgets)
                      THEN 0
                      ELSE Wrap(tv.active + 1)
               h == on_next_tab(hookOk)
           IN  Outcome(tv.widgets, a, "ok", None,
                       << EventAt("on_next_tab", "next_tab_", None, NoKey, h, Some(a)) >>
                           \o log(h))

(***************************************************************************)
(* The host's Tabbable implementation.  new_tab attaches a new pane with   *)
(* push_widget, close_tab removes a tab with close_tab_, next_tab switches *)
(* with next_tab_ and returns Ok, on_key_sub hands the key on and returns  *)
(* what its receiver returned (subOk).  Each records that it was called,   *)
(* with its result, before the calls it makes itself.                      *)
(***************************************************************************)
Called(name, k, out) ==
    Outcome(out.widgets, out.active, out.result, None,
            << Event(name, "Tabbable::on_key", None, k, out.result) >> \o out.trace)

new_tab(tv, in, build) == Called("new_tab", NoKey, push_widget(tv, in.widget, in.bad))

close_tab(tv, in, build) == Called("close_tab", NoKey, close_tab_(tv, in.bad, build))

next_tab(tv, in, build) == Called("next_tab", NoKey, next_tab_(tv, in.hookOk, build))

on_key_sub(tv, k, in, build) ==
    Called("on_key_sub", k,
           Outcome(tv.widgets, tv.active, IF in.subOk THEN "ok" ELSE "err", None, << >>))

\* Tabbable::on_key matching the character alone, whatever the modifier.
Tabbable_on_key_AnyModifier(tv, k, in, build) ==
    CASE k.ch = "t" -> new_tab(tv, in, build)
      [] k.ch = "w" -> close_tab(tv, in, build)
      [] k.ch = "\t" -> next_tab(tv, in, build)
      [] OTHER -> on_key_sub(tv, k, in, build)

(***************************************************************************)
(* Tabbable::on_key, the default dispatch.                                 *)
(***************************************************************************)
Tabbable_on_key(tv, k, in, build) ==
    CASE k = Ctrl("t") -> new_tab(tv, in, build)
      [] k = Ctrl("w") -> close_tab(tv, in, build)
      [] k = Char("\t") -> next_tab(tv, in, build)
      [] OTHER -> on_key_sub(tv, k, in, build)

\* Widget::on_key dropping the dispatch's result and refreshing in any case.
Widget_on_key_AlwaysRefresh(tv, k, in, build) ==
    LET d == Tabbable_on_key(tv, k, in, build) IN
    IF d.result = "panic"
      THEN d
      ELSE LET r == refresh(TabViewOf(d.widgets, d.active), "Widget::on_key", in.bad_after)
           IN  Outcome(r.widgets, r.active, r.result, None, d.trace \o r.trace)

(***************************************************************************)
(* Widget::on_key for TabView: `Tabbable::on_key(self, key)?;` and then    *)
(* `self.refresh()`.  This refresh is a call of its own, after the one a   *)
(* handler may have made: in.bad_after holds the panes that fail it.       *)
(***************************************************************************)
Widget_on_key(tv, k, in, build) ==
    LET d == Tabbable_on_key(tv, k, in, build) IN
    IF d.result # "ok"
      THEN d
      ELSE LET r == refresh(TabViewOf(d.widgets, d.active), "Widget::on_key", in.bad_after)
           IN  Outcome(r.widgets, r.active, r.result, None, d.trace \o r.trace)

(***************************************************************************)
(* Text.  A String is a sequence of tokens, each one character or one      *)
(* escape sequence of crate::term; String::len() counts UTF-8 bytes, a     *)
(* terminal column holds one character.                                    *)
(***************************************************************************)
Utf8Len(c) == IF c = "e-acute" THEN 2 ELSE 1

RECURSIVE ByteLen(_)
ByteLen(str) == IF str = << >> THEN 0 ELSE Utf8Len(Head(str)) + ByteLen(Tail(str))

DigitChars == << "0", "1", "2", "3", "4", "5", "6", "7", "8", "9" >>

\* format!("{}", num) of a usize
RECURSIVE to_string(_)
to_string(num) ==
    IF num < 10
      THEN << DigitChars[num + 1] >>
      ELSE to_string(num \div 10) \o << DigitChars[(num % 10) + 1] >>

\* crate::term: the escape sequences, each one token without width.
invert == << "<invert>" >>
reset == << "<reset>" >>
header_color == << "<header_color>" >>
goto_xy(x, y) == [x |-> x, y |-> y]

\* What pane p returns for render_header, render_footer or get_drawlist.
PaneText(what, p) == [what |-> what, pane |-> p]

\* The tab names of the model: Option<String> values.
NameA == << "a" >>
NameBC == << "b", "c" >>
NameE == << "e-acute" >>

\* u16 arithmetic of the header offset.
U16Modulus == 2 ^ 16

\* The outcome of an operation that takes &self: the container is as it
\* was, `rendered` is the value returned, as an Option.
RenderOutcome(tv, res, val, tr) ==
    [widgets |-> tv.widgets, active |-> tv.active, result |-> res,
     returned |-> None, trace |-> tr, rendered |-> val]

(***************************************************************************)
(* TabView::active_tab_ : &self.widgets[self.active], None for the panic   *)
(* of an index out of range.                                               *)
(***************************************************************************)
active_tab_First(tv) ==
    IF 0 < Len(tv.widgets) THEN Some(tv.widgets[1]) ELSE None

active_tab_(tv) ==
    IF tv.active < Len(tv.widgets) THEN Some(tv.widgets[tv.active + 1]) ELSE None

(***************************************************************************)
(* A call of the active pane's render_header, render_footer or             *)
(* get_drawlist through active_tab_(): a panic without an active pane, Err *)
(* when the pane's call fails (the pane is in `bad`), its text otherwise.  *)
(***************************************************************************)
AskActiveTab(tv, what, bad) ==
    LET t == active_tab_(tv) IN
    IF t = None
      THEN RenderOutcome(tv, "panic", None, << Event(what, "TabView", None, NoKey, "panic") >>)
      ELSE IF t[1] \in bad
             THEN RenderOutcome(tv, "err", None,
                                << Event(what, "TabView", t, NoKey, "err") >>)
             ELSE RenderOutcome(tv, "ok", Some(PaneText(what, t[1])),
                                << Event(what, "TabView", t, NoKey, "ok") >>)

\* Widget::render_footer for TabView
render_footer(tv, bad) == AskActiveTab(tv, "render_footer", bad)

\* Widget::get_drawlist for TabView
get_drawlist(tv, bad) == AskActiveTab(tv, "get_drawlist", bad)

(***************************************************************************)
(* Widget::render_header for TabView.                                      *)
(*                                                                         *)
(* The closure of the map over 0..widgets.len(): it adds the byte length   *)
(* of "num:name " to nums_length and yields the label " num:name", with    *)
(* the escape sequences around num:name when num is the active index.      *)
(* tab_names[num] panics when the list is too short and unwrap() when the  *)
(* label is None.                                                          *)
(***************************************************************************)
NameMissing(tab_names, num) == num >= Len(tab_names) \/ tab_names[num + 1] = None

Counted(num, name) == to_string(num) \o << ":" >> \o name \o << " " >>

TabLabel_ShiftedHighlight(num, name, act) ==
    IF num = act + 1
      THEN << " " >> \o invert \o to_string(num) \o << ":" >> \o name \o reset
               \o header_color
      ELSE << " " >> \o to_string(num) \o << ":" >> \o name

TabLabel(num, name, act) ==
    IF num = act
      THEN << " " >> \o invert \o to_string(num) \o << ":" >> \o name \o reset
               \o header_color
      ELSE << " " >> \o to_string(num) \o << ":" >> \o name

\* nums_length and tabnums after the closure ran for 0 .. num-1
RECURSIVE TabNums(_, _, _)
TabNums(tv, tab_names, num) ==
    IF num = 0
      THEN [nums_length |-> 0, tabnums |-> << >>]
      ELSE LET before == TabNums(tv, tab_names, num - 1)
               name == tab_names[num][1]
           IN  [nums_length |-> before.nums_length + ByteLen(Counted(num - 1, name)),
                tabnums |-> before.tabnums \o TabLabel(num - 1, name, tv.active)]

\* render_header with the map running over the names, not over the panes.
render_header_OverNames(tv, coords, tab_names, bad, build) ==
    IF coords = None
      THEN RenderOutcome(tv, "err", None, << >>)
      ELSE LET h == AskActiveTab(tv, "render_header", bad) IN
           IF h.result # "ok"
             THEN h
             ELSE LET got == << Event("get_tab_names", "TabView", None, NoKey, "ok") >>
                      n == Len(tab_names)
                  IN  IF \E num \in 0 .. n - 1 : NameMissing(tab_names, num)
                        THEN RenderOutcome(tv, "panic", None, h.trace \o got)
                        ELSE LET t == TabNums(tv, tab_names, n)
                                 len16 == t.nums_length % U16Modulus
                                 exact == coords[1] - len16
                             IN  IF exact < 0 /\ build = "debug"
                                   THEN RenderOutcome(tv, "panic", None, h.trace \o got)
                                   ELSE RenderOutcome(tv, "ok",
                                            Some([header |-> h.rendered[1],
                                                  color |-> header_color,
                                                  goto |-> goto_xy(exact % U16Modulus, 1),
                                                  tabnums |-> t.tabnums]),
                                            h.trace \o got)

\* `coords` is what get_coordinates() returns: Some(xsize), or None for Err.
render_header(tv, coords, tab_names, bad, build) ==
    IF coords = None
      THEN RenderOutcome(tv, "err", None, << >>)
      ELSE LET h == AskActiveTab(tv, "render_header", bad) IN
           IF h.result # "ok"
             THEN h
             ELSE LET got == << Event("get_tab_names", "TabView", None, NoKey, "ok") >>
                      n == Len(tv.widgets)
                  IN  IF \E num \in 0 .. n - 1 : NameMissing(tab_names, num)
                        THEN RenderOutcome(tv, "panic", None, h.trace \o got)
                        ELSE LET t == TabNums(tv, tab_names, n)
                                 len16 == t.nums_length % U16Modulus
                                 exact == coords[1] - len16
                             IN  IF exact < 0 /\ build = "debug"
                                   THEN RenderOutcome(tv, "panic", None, h.trace \o got)
                                   ELSE RenderOutcome(tv, "ok",
                                            Some([header |-> h.rendered[1],
                                                  color |-> header_color,
                                                  goto |-> goto_xy(exact % U16Modulus, 1),
                                                  tabnums |-> t.tabnums]),
                                            h.trace \o got)

VARIABLES
    widgets,        \* TabView.widgets
    active,         \* TabView.active
    build,          \* "debug" (overflow checks on) or "release" (wrapping)
    op,             \* the last operation called
    pane,           \* the pane given to it, as an Option
    key,            \* the key given to it, or NoKey
    result,         \* its result: "ok", "err" or "panic"
    returned,       \* the pane it returned, as an Option
    trace,          \* the calls it made, in order
    old_widgets,    \* widgets before it
    old_active,     \* active before it
    coords,         \* what get_coordinates() gave render_header, as an Option
    tab_names,      \* what get_tab_names() gave render_header
    rendered,       \* the text the last operation returned, as an Option
    streak,         \* `active` before and after each of the consecutive
                    \* next_tab_ calls that end with the last operation
    last_push,      \* the push_widget call right before the last operation,
                    \* when it returned Ok: its pane and the state before it
    prev_op,        \* the operation called before the last one
    tracking        \* whether streak, last_push and prev_op are kept: they
                    \* are in the specifications whose properties span
                    \* several calls

vars == << widgets, active, build, op, pane, key, result, returned, trace,
           old_widgets, old_active, coords, tab_names, rendered, streak,
           last_push, prev_op, tracking >>

self == TabViewOf(widgets, active)

\* A panic ends the program: nothing is called after it.
Running == result # "panic"

Init ==
    /\ widgets = new.widgets
    /\ active = new.active
    /\ build \in Builds
    /\ op = "new"
    /\ pane = None
    /\ key = NoKey
    /\ result = "ok"
    /\ returned = None
    /\ trace = << >>
    /\ old_widgets = << >>
    /\ old_active = 0
    /\ coords = None
    /\ tab_names = << >>
    /\ rendered = None
    /\ streak = << >>
    /\ last_push = None
    /\ prev_op = "new"
    /\ tracking = FALSE

\* The streak keeps `active` over the last MaxPanes consecutive calls.
Window(str) == IF Len(str) > MaxPanes + 1 THEN Tail(str) ELSE str

\* What an operation leaves behind: the state `out` and the record of the call.
Record(name, p, k, xs, names, out, text) ==
    /\ op' = name
    /\ pane' = p
    /\ key' = k
    /\ old_widgets' = widgets
    /\ old_active' = active
    /\ widgets' = out.widgets
    /\ active' = out.active
    /\ result' = out.result
    /\ returned' = out.returned
    /\ trace' = out.trace
    /\ coords' = xs
    /\ tab_names' = names
    /\ rendered' = text
    /\ streak' = IF tracking /\ name = "next_tab_"
                   THEN Window((IF op = "next_tab_" THEN streak ELSE << active >>)
                                   \o << out.active >>)
                   ELSE << >>
    /\ last_push' = IF tracking /\ op = "push_widget" /\ result = "ok"
                      THEN Some([pane |-> pane[1], widgets |-> old_widgets,
                                 active |-> old_active])
                      ELSE None
    /\ prev_op' = IF tracking THEN op ELSE "new"
    /\ UNCHANGED << build, tracking >>

Apply(name, p, k, out) == Record(name, p, k, None, << >>, out, None)

ApplyRender(name, xs, names, out) ==
    Record(name, None, NoKey, xs, names, out, out.rendered)

Held == {widgets[i] : i \in 1 .. Len(widgets)}

\* The bounds of the model, for an operation that leaves `out`.
WithinBounds(out) == Len(out.widgets) <= MaxPanes /\ (out.active <= MaxStray \/ out.active = UsizeMax)

PushWidget ==
    /\ Running
    /\ Len(widgets) < MaxPanes
    /\ \E w \in PaneIds \ Held, bad \in BadSets :
          Apply("push_widget", Some(w), NoKey, push_widget(self, w, bad))

PopWidget ==
    /\ Running
    /\ \E bad \in BadSets :
          Apply("pop_widget", None, NoKey, pop_widget(self, bad))

CloseTab ==
    /\ Running
    /\ \E bad \in BadSets :
          Apply("close_tab_", None, NoKey, close_tab_(self, bad, build))

NextTab ==
    /\ Running
    /\ \E hookOk \in BOOLEAN :
          LET out == next_tab_(self, hookOk, build) IN
          /\ WithinBounds(out)
          /\ Apply("next_tab_", None, NoKey, out)

\* What a key event brings with it besides the key: the pane a new tab would
\* hold, the panes whose refresh fails, whether the hook and whether
\* on_key_sub succeed.  An input the key's handler does not read is fixed.
Inputs(k) ==
    [widget : IF k = Ctrl("t") THEN PaneIds \ Held
                               ELSE {CHOOSE w \in PaneIds \ Held : TRUE},
     bad : IF k \in {Ctrl("t"), Ctrl("w")} THEN BadSets ELSE {{}},
     hookOk : IF k = Char("\t") THEN BOOLEAN ELSE {TRUE},
     subOk : IF k \in {Ctrl("t"), Ctrl("w"), Char("\t")} THEN {TRUE} ELSE BOOLEAN]

TabbableOnKey ==
    /\ Running
    /\ \E k \in Keys : \E in \in Inputs(k) :
          LET out == Tabbable_on_key(self, k, in, build) IN
          /\ WithinBounds(out)
          /\ Apply("Tabbable::on_key", None, k, out)

\* The inputs of Widget::on_key: those of the dispatch and the panes whose
\* refresh() fails at the refresh that follows it.
WidgetInputs(k) ==
    {[widget |-> in.widget, bad |-> in.bad, hookOk |-> in.hookOk,
      subOk |-> in.subOk, bad_after |-> after] :
        in \in Inputs(k), after \in BadSets}

WidgetOnKey ==
    /\ Running
    /\ \E k \in Keys : \E in \in WidgetInputs(k) :
          LET out == Widget_on_key(self, k, in, build) IN
          /\ WithinBounds(out)
          /\ Apply("Widget::on_key", None, k, out)

Next == PushWidget \/ PopWidget \/ CloseTab \/ NextTab \/ TabbableOnKey
            \/ WidgetOnKey

Spec == Init /\ [][Next]_vars

(***************************************************************************)
(* Rendering.  The operations that take &self are called between the       *)
(* lifecycle operations; the panes pushed are numbered in the order of     *)
(* their places, so that the container holds panes 1 .. len.               *)
(***************************************************************************)
\* The header widths get_coordinates() gives.  It reads them from get_core(),
\* which returns Ok for the container, so the Err that render_header would
\* pass on with `?` is not among the inputs.
Widths == {4, 12, 80, 65535}
CoordsInputs == {Some(w) : w \in Widths}

AllA(n) == [i \in 1 .. n |-> Some(NameA)]

\* The name lists get_tab_names() gives a container of n panes: a name for
\* every pane, one label absent, one name too few, one label too many.
NameLists(n) ==
    [1 .. n -> {Some(NameA), Some(NameBC)}]
        \cup {[AllA(n) EXCEPT ![i] = Some(NameE)] : i \in 1 .. n}
        \cup {[AllA(n) EXCEPT ![i] = None] : i \in 1 .. n}
        \cup {AllA(n - 1) : m \in {n} \ {0}}
        \cup {AllA(n) \o << Some(NameBC) >>, AllA(n) \o << None >>}

PushNew ==
    /\ Running
    /\ Len(widgets) < MaxPanes
    /\ \E bad \in BadSets :
          LET w == CHOOSE w \in PaneIds \ Held : \A v \in PaneIds \ Held : w <= v
          IN  Apply("push_widget", Some(w), NoKey, push_widget(self, w, bad))

RenderHeader ==
    /\ Running
    /\ \E xs \in CoordsInputs, names \in NameLists(Len(widgets)), bad \in BadSets :
          ApplyRender("render_header", xs, names,
                      render_header(self, xs, names, bad, build))

RenderFooter ==
    /\ Running
    /\ \E bad \in BadSets :
          ApplyRender("render_footer", None, << >>, render_footer(self, bad))

GetDrawlist ==
    /\ Running
    /\ \E bad \in BadSets :
          ApplyRender("get_drawlist", None, << >>, get_drawlist(self, bad))

NextRender ==
    PushNew \/ PopWidget \/ CloseTab \/ NextTab \/ RenderHeader \/ RenderFooter
        \/ GetDrawlist

SpecRender == Init /\ [][NextRender]_vars

\* The lifecycle operations alone, called directly.
NextLifecycle == PushWidget \/ PopWidget \/ CloseTab \/ NextTab

SpecLifecycle == Init /\ [][NextLifecycle]_vars

\* The lifecycle operations with the record kept over consecutive calls.
InitCalls ==
    /\ widgets = new.widgets
    /\ active = new.active
    /\ build \in Builds
    /\ op = "new"
    /\ pane = None
    /\ key = NoKey
    /\ result = "ok"
    /\ returned = None
    /\ trace = << >>
    /\ old_widgets = << >>
    /\ old_active = 0
    /\ coords = None
    /\ tab_names = << >>
    /\ rendered = None
    /\ streak = << >>
    /\ last_push = None
    /\ prev_op = "new"
    /\ tracking = TRUE

SpecCalls == InitCalls /\ [][NextLifecycle]_vars

(***************************************************************************)
(* Properties.                                                             *)
(***************************************************************************)
N == Len(old_widgets)
ActiveInRange == 0 <= active /\ active < Len(widgets)
OldActiveInRange == 0 <= old_active /\ old_active < N

\* C1: in every state the program reaches by push_widget, pop_widget,
\* close_tab_ and next_tab_ calls and keeps running in, a non-empty pane
\* sequence has 0 <= active < len(widgets).
C1_ActiveIndexesAPane == (Running /\ Len(widgets) > 0) => ActiveInRange

\* C2: next_tab_ on N >= 1 panes with 0 <= active < N sets active to 0 when
\* active = N-1 and to active+1 when active < N-1, and leaves the panes as
\* they were.
C2_NextTabWraps ==
    (op = "next_tab_" /\ N >= 1 /\ OldActiveInRange) =>
        /\ widgets = old_widgets
        /\ old_active = N - 1 => active = 0
        /\ old_active < N - 1 => active = old_active + 1

\* next_tab_ was called on three panes with the last one active.
C2_Witness ==
    op = "next_tab_" /\ N = 3 /\ old_active = 2 /\ active = 0 /\ result = "ok"

\* C3: push_widget(P) on N panes places P at index N, leaves the panes at
\* 0..N-1 as they were and does not change active; P is the active pane only
\* when there was no pane and active was 0 before the call.
C3_PushAppends ==
    op = "push_widget" =>
        /\ Len(widgets) = N + 1
        /\ widgets[N + 1] = pane[1]
        /\ SubSeq(widgets, 1, N) = old_widgets
        /\ active = old_active
        /\ active = N => (N = 0 /\ old_active = 0)

\* push_widget was called on a container with panes, and succeeded.
C3_Witness ==
    op = "push_widget" /\ N >= 2 /\ result = "ok" /\ active = 1

\* C4: pop_widget on N >= 1 panes, whatever the active index, returns the pane
\* that was at index N-1 and leaves the panes 0..N-2 in order, with active
\* unchanged.
C4_PopReturnsLast ==
    (op = "pop_widget" /\ N >= 1) =>
        /\ result = "ok"
        /\ returned = Some(old_widgets[N])
        /\ widgets = SubSeq(old_widgets, 1, N - 1)
        /\ active = old_active

\* C5: when push_widget or pop_widget returns an error, the pane sequence and
\* the active index are what they were before the call.
C5_NoPartialMutation ==
    (op \in {"push_widget", "pop_widget"} /\ result = "err") =>
        (widgets = old_widgets /\ active = old_active)

\* The handlers Tabbable::on_key called, in order.
IsHandler(e) == e.name \in {"new_tab", "close_tab", "next_tab", "on_key_sub"}
Handlers == SelectSeq(trace, IsHandler)

\* The handler the dispatch of section 4.2 names for a key.
HandlerFor(k) ==
    IF k.kind = "Ctrl" /\ k.ch = "t" THEN "new_tab"
    ELSE IF k.kind = "Ctrl" /\ k.ch = "w" THEN "close_tab"
    ELSE IF k.kind = "Char" /\ k.ch = "\t" THEN "next_tab"
    ELSE "on_key_sub"

\* C6: the default Tabbable::on_key invokes exactly one handler per key:
\* new_tab for Ctrl-t, close_tab for Ctrl-w, next_tab for the tab character,
\* on_key_sub with that key for every other key; its result is the handler's.
C6_OneHandlerPerKey ==
    op = "Tabbable::on_key" =>
        /\ Len(Handlers) = 1
        /\ Handlers[1].name = HandlerFor(key)
        /\ Handlers[1].name = "on_key_sub" => Handlers[1].key = key
        /\ Handlers[1].res = result

\* Char('t') was dispatched: it is not a reserved chord, and on_key_sub failed.
C6_Witness ==
    /\ op = "Tabbable::on_key"
    /\ key = Char("t")
    /\ result = "err"
    /\ Len(Handlers) = 1
    /\ Handlers[1].name = "on_key_sub"

HookFailed ==
    \E i \in DOMAIN trace : trace[i].name = "on_next_tab" /\ trace[i].res = "err"
Logged == \E i \in DOMAIN trace : trace[i].name = "log"

\* C7: if the on_next_tab hook fails, next_tab_ still updates the active index
\* as it does when the hook succeeds and returns normally; the error is logged
\* and does not reach the caller.
C7_HookFailureIsolated ==
    (op = "next_tab_" /\ HookFailed) =>
        /\ result = "ok"
        /\ Logged
        /\ widgets = old_widgets
        /\ active = IF (old_active + 1) % UsizeModulus = N
                      THEN 0
                      ELSE (old_active + 1) % UsizeModulus

\* next_tab_ moved from the first of two panes to the second though the hook
\* failed.
C7_Witness ==
    op = "next_tab_" /\ HookFailed /\ N = 2 /\ old_active = 0 /\ active = 1

\* The refreshes a caller made, in order.
RefreshesBy(by) ==
    LET Is(e) == e.name = "refresh" /\ e.by = by IN SelectSeq(trace, Is)

\* C8: with N >= 2 panes and the last one active, close_tab_ succeeds and
\* leaves the first N-1 panes in order with active = N-2; the refresh inside
\* pop_widget reaches a pane.
C8_CloseLastActive ==
    (op = "close_tab_" /\ N >= 2 /\ old_active = N - 1) =>
        /\ result = "ok"
        /\ widgets = SubSeq(old_widgets, 1, N - 1)
        /\ active = N - 2
        /\ Len(RefreshesBy("pop_widget")) = 1
        /\ RefreshesBy("pop_widget")[1].pane # None

\* C9: close_tab_ on the only remaining tab (N = 1, active = 0) returns an
\* error or leaves an empty container with an active index; close_tab_ on the
\* empty container returns an error and leaves the state as it was.
C9_CloseOnlyTab ==
    /\ (op = "close_tab_" /\ N = 1 /\ old_active = 0) =>
          \/ result = "err"
          \/ result = "ok" /\ widgets = << >> /\ active \in 0 .. UsizeMax
    /\ (op = "close_tab_" /\ N = 0) =>
          result = "err" /\ widgets = old_widgets /\ active = old_active

\* C10 as stated: Widget::on_key refreshes after the dispatch for every key,
\* whether the dispatched handler succeeded or failed.
C10_RefreshUnconditional ==
    (op = "Widget::on_key" /\ Len(Handlers) = 1 /\ Handlers[1].res # "panic") =>
        /\ Len(RefreshesBy("Widget::on_key")) = 1
        /\ trace[Len(trace)] = RefreshesBy("Widget::on_key")[1]

\* C10, amended: Widget::on_key runs the Tabbable dispatch; when the handler
\* succeeded it then refreshes the active pane, as its last call, and returns
\* the refresh's result; when the handler failed it returns the handler's
\* error and does not refresh.
C10_RefreshAfterSuccessfulDispatch ==
    op = "Widget::on_key" =>
        /\ Len(Handlers) = 1
        /\ trace[1] = Handlers[1]
        /\ Handlers[1].name = HandlerFor(key)
        /\ Handlers[1].res = "ok" =>
              /\ Len(RefreshesBy("Widget::on_key")) = 1
              /\ trace[Len(trace)] = RefreshesBy("Widget::on_key")[1]
              /\ result = trace[Len(trace)].res
        /\ Handlers[1].res # "ok" =>
              /\ RefreshesBy("Widget::on_key") = << >>
              /\ result = Handlers[1].res

\* A key whose handler succeeded was followed by a refresh that failed.
C10_Witness ==
    /\ op = "Widget::on_key"
    /\ key = Char("\t")
    /\ Handlers[1].res = "ok"
    /\ Len(RefreshesBy("Widget::on_key")) = 1
    /\ result = "err"

\* The operations that reach the active pane through active_tab_.
ThroughActiveTab == {"render_header", "render_footer", "get_drawlist"}

\* A refresh found no pane at the active index.
RefreshMissed ==
    \E i \in DOMAIN trace : trace[i].name = "refresh" /\ trace[i].pane = None

\* C11: accessing the active pane when the active index is out of range, an
\* empty container included, gives the caller an error value, not an abort:
\* for render_header, render_footer and get_drawlist, and for a refresh.
C11_OutOfRangeIsAnError ==
    /\ (op \in ThroughActiveTab /\ ~OldActiveInRange) => result = "err"
    /\ RefreshMissed => result = "err"

\* C14: with 0 <= active < len(widgets), render_footer and get_drawlist return
\* what the pane at index active returns for the same operation, value or
\* error, and leave the pane sequence and the active index as they were.
C14_DelegatesToActivePane ==
    (op \in {"render_footer", "get_drawlist"} /\ OldActiveInRange) =>
        /\ widgets = old_widgets
        /\ active = old_active
        /\ Len(trace) = 1
        /\ trace[1].name = op
        /\ trace[1].pane = Some(widgets[active + 1])
        /\ trace[1].res = result
        /\ result = "ok" => rendered = Some(PaneText(op, widgets[active + 1]))
        /\ result # "ok" => rendered = None

\* get_drawlist of three panes with the second one active failed as that
\* pane's get_drawlist did.
C14_Witness ==
    /\ op = "get_drawlist"
    /\ Len(widgets) = 3
    /\ active = 1
    /\ result = "err"
    /\ trace[1].pane = Some(widgets[2])

(***************************************************************************)
(* render_header, as its caller sees it.                                   *)
(***************************************************************************)
\* The labels 0 .. N-1 that get_tab_names() supplied are all present.
NamesPresent == \A num \in 0 .. N - 1 : num < Len(tab_names) /\ tab_names[num + 1] # None

\* get_coordinates() and the active pane's render_header() both succeeded.
HeaderObtained ==
    /\ coords # None
    /\ trace # << >>
    /\ trace[1].name = "render_header"
    /\ trace[1].res = "ok"

NamesRead == \E i \in DOMAIN trace : trace[i].name = "get_tab_names"

\* The columns " i:name" takes on the terminal.
LabelWidth(num, name) == 1 + Len(to_string(num)) + 1 + Len(name)

RECURSIVE StripWidth(_)
StripWidth(n) ==
    IF n = 0 THEN 0 ELSE StripWidth(n - 1) + LabelWidth(n - 1, tab_names[n][1])

\* The same strip in bytes, as String::len() counts it.
RECURSIVE StripBytes(_)
StripBytes(n) ==
    IF n = 0 THEN 0
    ELSE StripBytes(n - 1) + ByteLen(to_string(n - 1)) + 2 + ByteLen(tab_names[n][1])

\* C12: for every header width W, pane count and list of tab names, tab
\* strips longer than W included, render_header places the strip at offset
\* W minus the strip's printable length; the offset lies in 0..W and offset
\* plus strip length is W.
C12_StripRightAligned ==
    (op = "render_header" /\ HeaderObtained /\ NamesPresent) =>
        /\ result = "ok"
        /\ rendered[1].goto.x = coords[1] - StripWidth(N)
        /\ rendered[1].goto.x \in 0 .. coords[1]
        /\ rendered[1].goto.x + StripWidth(N) = coords[1]

IsEscape(tok) == tok \in {invert[1], reset[1], header_color[1]}
IsPrinted(tok) == ~IsEscape(tok)
Plain(str) == SelectSeq(str, IsPrinted)
Escapes(str) == SelectSeq(str, IsEscape)

\* The index of the first " " of str, Len(str) + 1 without one.
FirstSpace(str) ==
    IF \E i \in DOMAIN str : str[i] = " "
      THEN CHOOSE i \in DOMAIN str : str[i] = " " /\ \A j \in 1 .. i - 1 : str[j] # " "
      ELSE Len(str) + 1

\* The labels of a tab strip, each without the " " that begins it.
RECURSIVE SplitLabels(_)
SplitLabels(str) ==
    IF str = << >> THEN << >>
    ELSE IF Head(str) # " " THEN << << "malformed" >> >>
    ELSE LET rest == Tail(str)
             k == FirstSpace(rest)
         IN  << SubSeq(rest, 1, k - 1) >> \o SplitLabels(SubSeq(rest, k, Len(rest)))

Labels == SplitLabels(rendered[1].tabnums)

\* C13: the tab strip render_header produces holds one label per pane, for
\* the indices 0..N-1 in pane order, each with its index and the name at the
\* same position of get_tab_names; exactly the label whose index is `active`
\* is wrapped in invert .. reset, header_color; render_header changes neither
\* the pane sequence nor the active index.
C13_OneLabelPerPane ==
    (op = "render_header" /\ result = "ok") =>
        /\ widgets = old_widgets
        /\ active = old_active
        /\ Len(Labels) = N
        /\ \A i \in 1 .. N :
              /\ Plain(Labels[i]) = to_string(i - 1) \o << ":" >> \o tab_names[i][1]
              /\ i - 1 = active =>
                    Labels[i] = invert \o Plain(Labels[i]) \o reset \o header_color
              /\ i - 1 # active => Escapes(Labels[i]) = << >>
        /\ Cardinality({i \in 1 .. N : Escapes(Labels[i]) # << >>}) = 1

\* Three tabs named a, bc, a with the second one active were rendered.
C13_Witness ==
    /\ op = "render_header"
    /\ result = "ok"
    /\ N = 3
    /\ active = 1
    /\ tab_names = << Some(NameA), Some(NameBC), Some(NameA) >>
    /\ Labels[2] = << "<invert>", "1", ":", "b", "c", "<reset>", "<header_color>" >>

\* C17 as stated: render_header returns a header only when get_tab_names
\* supplies a present label at every index 0..N-1; with a list shorter than
\* the pane count or one of those labels absent it aborts, returning neither
\* a header nor an error.
C17_MissingNameAborts ==
    op = "render_header" =>
        /\ result = "ok" => NamesPresent
        /\ ~NamesPresent => result = "panic"

\* C17, amended: render_header returns a header only when get_tab_names
\* supplies a present label at every index 0..N-1.  When get_coordinates and
\* the active pane's render_header succeeded, a list shorter than the pane
\* count or an absent label among 0..N-1 makes it abort; when the pane's
\* render_header failed it returns that error and never asks for the names.
\* Names at the indices >= N are ignored: they neither abort the call nor
\* add a label.
C17_MissingNameAbortsOnceHeaderObtained ==
    op = "render_header" =>
        /\ result = "ok" => NamesPresent
        /\ (~NamesPresent /\ HeaderObtained) => result = "panic"
        /\ ~HeaderObtained => (result # "ok" /\ ~NamesRead)
        /\ (trace # << >> /\ trace[1].res = "err") => result = "err"
        /\ (NamesPresent /\ HeaderObtained /\ StripBytes(N) <= coords[1]) =>
              (result = "ok" /\ Len(Labels) = N)

\* The second of three labels was absent and render_header aborted.
C17_Witness ==
    /\ op = "render_header"
    /\ N = 3
    /\ HeaderObtained
    /\ tab_names = << Some(NameA), None, Some(NameA) >>
    /\ result = "panic"

\* C15: for every state with N >= 1 panes and every active index in 0..N-1,
\* a successful close_tab_ removes exactly the pane at index N-1, keeps the
\* panes 0..N-2 in order and sets active to its previous value minus one, a
\* valid non-negative index.
C15_CloseFromAnyActive ==
    (op = "close_tab_" /\ result = "ok" /\ N >= 1 /\ OldActiveInRange) =>
        /\ returned = None
        /\ widgets = SubSeq(old_widgets, 1, N - 1)
        /\ active = old_active - 1
        /\ active >= 0
        /\ ActiveInRange

\* The calls of the on_next_tab hook, in order.
HookCalls == LET Is(e) == e.name = "on_next_tab" IN SelectSeq(trace, Is)

\* C16: within one next_tab_ call the on_next_tab hook is invoked exactly
\* once, and only after the active index has been updated, so that it sees
\* the new active index; it is invoked on every next_tab_ call, also with
\* N = 1 where the index does not change.
C16_HookOnceAfterUpdate ==
    op = "next_tab_" =>
        /\ result = "ok"
        /\ Len(HookCalls) = 1
        /\ HookCalls[1].by = "next_tab_"
        /\ HookCalls[1].at = Some(active)
        /\ (N = 1 /\ old_active = 0) => (active = 0 /\ HookCalls[1].at = Some(0))

\* The hook ran once in a next_tab_ that moved from the first of three panes
\* to the second, and saw the second.
C16_Witness ==
    /\ op = "next_tab_"
    /\ N = 3
    /\ old_active = 0
    /\ active = 1
    /\ Len(HookCalls) = 1
    /\ HookCalls[1].at = Some(1)

\* The values `active` took in calls i+1 .. i+n of the streak.
Visited(i, n) == {streak[k] : k \in i + 1 .. i + n}

\* C18: from a state with N >= 1 panes and 0 <= active < N, N consecutive
\* next_tab_ calls bring active back to its starting value, during those N
\* calls active takes each value of 0..N-1 exactly once, and fewer than N
\* calls never bring it back to the start.
C18_NextTabCycles ==
    (op = "next_tab_" /\ N >= 1 /\ streak[1] \in 0 .. N - 1) =>
        \A i \in DOMAIN streak :
            /\ streak[i] \in 0 .. N - 1
            /\ \A j \in DOMAIN streak :
                  /\ (i < j /\ j - i < N) => streak[j] # streak[i]
                  /\ j - i = N =>
                        /\ streak[j] = streak[i]
                        /\ Visited(i, N) = 0 .. N - 1
                        /\ Cardinality(Visited(i, N)) = N

\* Three consecutive next_tab_ calls on three panes came back to the start,
\* the second pane.
C18_Witness ==
    /\ op = "next_tab_"
    /\ N = 3
    /\ streak = << 1, 2, 0, 1 >>

\* C19: next_tab_ keeps the active index in range only from an in-range
\* state: with 0 <= active < len(widgets) before the call the same holds
\* after it; on the empty container next_tab_ does not wrap and increases
\* active by one on each call, so that a push_widget following next_tab_ on
\* an empty container gives a non-empty container whose active index is not
\* the index of a pane.
C19_InRangeOnlyFromInRange ==
    /\ (op = "next_tab_" /\ OldActiveInRange) => (result = "ok" /\ ActiveInRange)
    /\ (op = "next_tab_" /\ N = 0) =>
          /\ result = "ok"
          /\ widgets = << >>
          /\ active = old_active + 1
          /\ streak = << streak[1] >> \o [i \in 1 .. Len(streak) - 1 |-> streak[i] + 1]
    /\ (op = "push_widget" /\ prev_op = "next_tab_" /\ N = 0) =>
          /\ Len(widgets) = 1
          /\ active = old_active
          /\ active >= 1
          /\ ~ActiveInRange

\* Two next_tab_ calls on the empty container were followed by a push_widget:
\* the container holds one pane and active is 2.
C19_Witness ==
    /\ op = "push_widget"
    /\ prev_op = "next_tab_"
    /\ N = 0
    /\ widgets = << 1 >>
    /\ active = 2
    /\ result = "panic"

\* C20: from a state with 0 <= active < len(widgets), push_widget(P) followed
\* at once by pop_widget returns P and leaves the container as it was before
\* the push, the same panes in the same order and the same active index,
\* provided both refreshes succeed.
C20_PushThenPopRestores ==
    (/\ op = "pop_widget"
     /\ result = "ok"
     /\ last_push # None
     /\ last_push[1].active < Len(last_push[1].widgets)) =>
        /\ returned = Some(last_push[1].pane)
        /\ widgets = last_push[1].widgets
        /\ active = last_push[1].active
        /\ old_widgets = Append(last_push[1].widgets, last_push[1].pane)

\* A pane was pushed onto two panes with the second one active, and popped
\* again.
C20_Witness ==
    /\ op = "pop_widget"
    /\ result = "ok"
    /\ last_push # None
    /\ Len(last_push[1].widgets) = 2
    /\ last_push[1].active = 1
    /\ returned = Some(last_push[1].pane)
    /\ Len(widgets) = 2

====
